---- MODULE Spec2Model ----
(***************************************************************************)
(* Model of the Noira chat orchestration of kanosym:                       *)
(*   backend/noira/chat_controller.py      ChatController                  *)
(*   backend/noira/file_access_service.py  NoiraFileAccessService          *)
(*                                                                         *)
(* Text is a sequence of tokens: the two tag tokens, a whitespace token    *)
(* and ordinary characters.  A Python Optional[str] is a record            *)
(* [none, s]: None is [none |-> TRUE], a string is [none |-> FALSE, s].    *)
(***************************************************************************)
EXTENDS Integers, Sequences, FiniteSets, TLC

VARIABLES
    client,        \* ChatController.client is set (an OpenAI client exists)
    chat_history,  \* ChatController.chat_history
    run,           \* the send_message call the model follows: its locals, then its result
    tool_request,  \* DispatchSpec: the execute_tool_call under test
    dispatch,      \* DispatchSpec: what that execute_tool_call did
    stream,        \* StreamSpec: one call of send_message_stream and its generator
    registry,      \* RegistrySpec: the pending results, by analysis id
    framer,        \* FramerSpec: a text and what the response extraction made of it
    store,         \* StoreSpec: the project files and the test-run files
    threads        \* ConcSpec: the send_message calls running on request threads

\* the variables of the other specifications, as seen from each one
others == <<stream, registry, framer, store, threads>>

vars ==
    <<client, chat_history, run, tool_request, dispatch, stream, registry, framer, store,
      threads>>

(***************************************************************************)
(* Bounds of the model                                                     *)
(***************************************************************************)
MaxCallsPerReply == 2   \* tool calls one LLM reply may carry
MaxToolCalls == 2       \* tool calls executed per run
MaxTextLen == 4         \* tokens of a text given to the response extraction
MaxTestRuns == 2        \* test runs saved in one behaviour of the store
MaxStreamEvents == 2    \* tool_call events a worker puts on the queue of a stream
MaxRunCalls == 2        \* completion calls of one of several concurrent runs
MaxResets == 1          \* reset_chat calls while runs are concurrent

(***************************************************************************)
(* Program constants                                                       *)
(***************************************************************************)
max_iterations == 30
HistoryWindow == 10

(***************************************************************************)
(* Text                                                                    *)
(***************************************************************************)
OPEN == "<response>"
CLOSE == "</response>"
SP == " "

None == [none |-> TRUE, s |-> <<>>]
Str(s) == [none |-> FALSE, s |-> s]

\* Python truthiness of an Optional[str]
Truthy(v) == ~v.none /\ Len(v.s) > 0

\* v or ""
OrEmpty(v) == IF Truthy(v) THEN v ELSE Str(<<>>)

Min(S) == CHOOSE x \in S : \A y \in S : x <= y
Max(S) == CHOOSE x \in S : \A y \in S : x >= y

\* str.strip(): leading and trailing whitespace removed
Strip(s) ==
    LET keep == {i \in 1..Len(s) : s[i] # SP}
    IN  IF keep = {} THEN <<>> ELSE SubSeq(s, Min(keep), Max(keep))

\* positions i of an opening tag that has a closing tag somewhere after it
MatchStarts(s) ==
    {i \in 1..Len(s) : s[i] = OPEN /\ \E j \in (i+1)..Len(s) : s[j] = CLOSE}

\* re.search(r'<response>(.*?)</response>', s, re.DOTALL) is not None
ReSearch(s) == MatchStarts(s) # {}

\* the group of a greedy pattern: up to the last closing tag
Group1Greedy(s) ==
    LET i == Min(MatchStarts(s))
        j == Max({k \in (i+1)..Len(s) : s[k] = CLOSE})
    IN  SubSeq(s, i + 1, j - 1)

\* response_match.group(1): leftmost match, shortest group
Group1(s) ==
    LET i == Min(MatchStarts(s))
        j == Min({k \in (i+1)..Len(s) : s[k] = CLOSE})
    IN  SubSeq(s, i + 1, j - 1)

(***************************************************************************)
(* Tool dispatch: NoiraFileAccessService.execute_tool_call                 *)
(*                                                                         *)
(* arguments is the parsed JSON value: "non_object" (a list, a number,     *)
(* null), "empty_object" ({}), "full_object" (every field the tool knows,  *)
(* confirm=true included), "invalid_portfolio" (as full_object, with a     *)
(* parameters.portfolio whose weights do not sum to 1) or                  *)
(* "position_without_x" (as full_object, with a position that has no x).   *)
(* env is the condition of the store the call meets: the project (or test  *)
(* run) named is "absent", present with the block "unplaced", or present   *)
(* with the block "placed"; execute_tool_call on its own also meets        *)
(* "no_block", a project whose blocks do not hold the block type.  ops     *)
(* lists the accesses to the project/test-run store in order.              *)
(***************************************************************************)
KnownTools ==
    {"load_project", "load_test_run", "search_test_runs", "list_projects",
     "update_block_position", "update_block_parameters", "add_block",
     "remove_block", "create_project", "delete_test_run", "delete_project",
     "fetch_asset_volatility", "estimate_correlation_matrix",
     "run_sensitivity_test"}

\* names the chain does not know
UnknownTools == {"no_such_tool", "LOAD_PROJECT", ""}
ParsedArgs ==
    {"non_object", "empty_object", "full_object", "invalid_portfolio",
     "position_without_x"}
Env == {"absent", "unplaced", "placed"}

Success(name) ==
    [success |-> TRUE, data |-> <<"data", name>>, summary |-> <<"summary", name>>]
Failure(error) == [success |-> FALSE, error |-> error]

Returns(result, ops) == [raises |-> FALSE, result |-> result, ops |-> ops]
\* arguments.get(...) on a value that is no dict: AttributeError
Raises(ops) == [raises |-> TRUE, result |-> Failure("unreached"), ops |-> ops]

handle_load_project(arguments, env) ==
    IF arguments = "non_object" THEN Raises(<<>>)
    ELSE IF arguments = "empty_object"
         THEN Returns(Failure("project_name is required"), <<>>)
    ELSE IF env = "absent" THEN Returns(Failure("not found"), <<"list_projects">>)
    ELSE Returns(Success("load_project"), <<"list_projects", "load_project">>)

handle_load_test_run(arguments, env) ==
    IF arguments = "non_object" THEN Raises(<<>>)
    ELSE IF arguments = "empty_object"
         THEN Returns(Failure("test_run_id is required"), <<>>)
    ELSE IF env = "absent" THEN Returns(Failure("not found"), <<"load_test_run">>)
    ELSE Returns(Success("load_test_run"), <<"load_test_run">>)

handle_search_test_runs(arguments, env) ==
    IF arguments = "non_object" THEN Raises(<<>>)
    ELSE IF arguments = "empty_object"
         THEN Returns(Success("search_test_runs"),
                      IF env = "absent" THEN <<"list_test_runs">>
                      ELSE <<"list_test_runs", "load_test_run">>)
    ELSE Returns(Success("search_test_runs"),
                 IF env = "absent" THEN <<"list_test_runs", "list_projects">>
                 ELSE <<"list_test_runs", "list_projects", "load_test_run">>)

handle_list_projects(arguments, env) ==
    IF arguments = "non_object" THEN Raises(<<>>)
    ELSE Returns(Success("list_projects"), <<"list_projects">>)

handle_update_block_position(arguments, env) ==
    IF arguments = "non_object" THEN Raises(<<>>)
    ELSE IF arguments = "empty_object"
         THEN Returns(Failure("project_name, block_type, and new_position are required"), <<>>)
    ELSE IF env = "absent" THEN Returns(Failure("not found"), <<"load_project">>)
    ELSE IF env = "no_block"
         THEN Returns(Failure("not found in project"), <<"load_project">>)
    ELSE IF env = "unplaced"
         THEN Returns(Failure("not placed on canvas"), <<"load_project">>)
    \* new_position['x'] in the log line after the save: KeyError
    ELSE IF arguments = "position_without_x"
         THEN Raises(<<"load_project", "save_project">>)
    ELSE Returns(Success("update_block_position"), <<"load_project", "save_project">>)

handle_update_block_parameters(arguments, env) ==
    IF arguments = "non_object" THEN Raises(<<>>)
    ELSE IF arguments = "empty_object"
         THEN Returns(Failure("project_name, block_type, and parameters are required"), <<>>)
    ELSE IF arguments = "invalid_portfolio"
         THEN Returns(Failure("Weights must sum to 1.0"), <<>>)
    ELSE IF env = "absent" THEN Returns(Failure("not found"), <<"load_project">>)
    ELSE IF env = "no_block"
         THEN Returns(Failure("not found in project"), <<"load_project">>)
    ELSE Returns(Success("update_block_parameters"), <<"load_project", "save_project">>)

handle_add_block(arguments, env) ==
    IF arguments = "non_object" THEN Raises(<<>>)
    ELSE IF arguments = "empty_object"
         THEN Returns(Failure("project_name, block_type, and position are required"), <<>>)
    ELSE IF arguments = "invalid_portfolio"
         THEN Returns(Failure("Weights must sum to 1.0"), <<>>)
    ELSE IF env = "absent" THEN Returns(Failure("not found"), <<"load_project">>)
    ELSE IF env = "placed"
         THEN Returns(Failure("already placed on canvas"), <<"load_project">>)
    \* position['x'] in the log line after the save: KeyError
    ELSE IF arguments = "position_without_x"
         THEN Raises(<<"load_project", "save_project">>)
    ELSE Returns(Success("add_block"), <<"load_project", "save_project">>)

\* a handler that saves the project before it looks for the block
handle_remove_block_saving_first(arguments, env) ==
    IF arguments = "non_object" THEN Raises(<<>>)
    ELSE IF arguments = "empty_object"
         THEN Returns(Failure("project_name and block_type are required"), <<>>)
    ELSE IF env = "absent" THEN Returns(Failure("not found"), <<"load_project">>)
    ELSE IF env = "no_block"
         THEN Returns(Failure("not found in project"), <<"load_project", "save_project">>)
    ELSE Returns(Success("remove_block"), <<"load_project", "save_project">>)

handle_remove_block(arguments, env) ==
    IF arguments = "non_object" THEN Raises(<<>>)
    ELSE IF arguments = "empty_object"
         THEN Returns(Failure("project_name and block_type are required"), <<>>)
    ELSE IF env = "absent" THEN Returns(Failure("not found"), <<"load_project">>)
    ELSE IF env = "no_block"
         THEN Returns(Failure("not found in project"), <<"load_project">>)
    ELSE Returns(Success("remove_block"), <<"load_project", "save_project">>)

handle_create_project(arguments, env) ==
    IF arguments = "non_object" THEN Raises(<<>>)
    ELSE IF arguments = "empty_object"
         THEN Returns(Failure("project_name is required"), <<>>)
    ELSE IF env # "absent"
         THEN Returns(Failure("already exists"), <<"list_projects">>)
    ELSE Returns(Success("create_project"),
                 <<"list_projects", "create_project", "save_project">>)

handle_delete_test_run(arguments, env) ==
    IF arguments = "non_object" THEN Raises(<<>>)
    ELSE IF arguments = "empty_object"
         THEN Returns(Failure("test_run_id is required"), <<>>)
    ELSE IF env = "absent" THEN Returns(Failure("not found"), <<"load_test_run">>)
    ELSE Returns(Success("delete_test_run"),
                 <<"load_test_run", "unlink_test_run", "list_projects",
                   "load_project", "save_project">>)

delete_project(arguments, env) ==
    IF arguments = "empty_object"
    THEN Returns(Failure("Please set confirm=true to delete the project"), <<>>)
    ELSE IF env = "absent" THEN Returns(Failure("not found"), <<"load_project">>)
    ELSE Returns(Success("delete_project"),
                 <<"load_project", "unlink_test_run", "unlink_project">>)

handle_delete_project(arguments, env) ==
    IF arguments = "non_object" THEN Raises(<<>>)
    ELSE delete_project(arguments, env)

\* the market data tools go to an HTTP endpoint, not to the store; their own
\* try/except turns every failure into a result
handle_fetch_asset_volatility(arguments, env) ==
    IF arguments = "non_object" THEN Raises(<<>>)
    ELSE IF env = "absent" THEN Returns(Failure("Failed to fetch volatility"), <<>>)
    ELSE Returns(Success("fetch_asset_volatility"), <<>>)

handle_estimate_correlation_matrix(arguments, env) ==
    IF arguments = "non_object" THEN Raises(<<>>)
    ELSE IF env = "absent"
         THEN Returns(Failure("Failed to fetch correlation matrix"), <<>>)
    ELSE Returns(Success("estimate_correlation_matrix"), <<>>)

handle_run_sensitivity_test(arguments, env) ==
    IF arguments = "non_object" THEN Raises(<<>>)
    ELSE IF arguments = "empty_object"
         THEN Returns(Failure("Failed to run sensitivity test"), <<>>)
    ELSE IF env = "absent" THEN Returns(Failure("not found"), <<"load_project">>)
    ELSE IF env \in {"unplaced", "no_block"}
         THEN Returns(Failure("block not found in project"), <<"load_project">>)
    ELSE Returns(Success("run_sensitivity_test"), <<"load_project", "save_test_run">>)

\* a chain whose else branch lists the projects instead of refusing the name
HandlerDefaulting(tool_name, arguments, env) ==
    IF tool_name \in KnownTools
    THEN CASE tool_name = "load_project" -> handle_load_project(arguments, env)
           [] tool_name = "load_test_run" -> handle_load_test_run(arguments, env)
           [] tool_name = "search_test_runs" -> handle_search_test_runs(arguments, env)
           [] tool_name = "update_block_position" -> handle_update_block_position(arguments, env)
           [] tool_name = "update_block_parameters" -> handle_update_block_parameters(arguments, env)
           [] tool_name = "add_block" -> handle_add_block(arguments, env)
           [] tool_name = "remove_block" -> handle_remove_block(arguments, env)
           [] tool_name = "create_project" -> handle_create_project(arguments, env)
           [] tool_name = "delete_test_run" -> handle_delete_test_run(arguments, env)
           [] tool_name = "delete_project" -> handle_delete_project(arguments, env)
           [] tool_name = "fetch_asset_volatility" -> handle_fetch_asset_volatility(arguments, env)
           [] tool_name = "estimate_correlation_matrix" -> handle_estimate_correlation_matrix(arguments, env)
           [] tool_name = "run_sensitivity_test" -> handle_run_sensitivity_test(arguments, env)
           [] tool_name = "list_projects" -> handle_list_projects(arguments, env)
    ELSE handle_list_projects(arguments, env)

\* the accesses that write or delete a file of the store
StoreEffects ==
    {"create_project", "save_project", "save_test_run", "unlink_test_run", "unlink_project"}

\* the if/elif chain of execute_tool_call
Handler(tool_name, arguments, env) ==
    CASE tool_name = "load_project" -> handle_load_project(arguments, env)
      [] tool_name = "load_test_run" -> handle_load_test_run(arguments, env)
      [] tool_name = "search_test_runs" -> handle_search_test_runs(arguments, env)
      [] tool_name = "list_projects" -> handle_list_projects(arguments, env)
      [] tool_name = "update_block_position" -> handle_update_block_position(arguments, env)
      [] tool_name = "update_block_parameters" -> handle_update_block_parameters(arguments, env)
      [] tool_name = "add_block" -> handle_add_block(arguments, env)
      [] tool_name = "remove_block" -> handle_remove_block(arguments, env)
      [] tool_name = "create_project" -> handle_create_project(arguments, env)
      [] tool_name = "delete_test_run" -> handle_delete_test_run(arguments, env)
      [] tool_name = "delete_project" -> handle_delete_project(arguments, env)
      [] tool_name = "fetch_asset_volatility" -> handle_fetch_asset_volatility(arguments, env)
      [] tool_name = "estimate_correlation_matrix" -> handle_estimate_correlation_matrix(arguments, env)
      [] tool_name = "run_sensitivity_test" -> handle_run_sensitivity_test(arguments, env)
      [] OTHER -> Returns(Failure("Unknown tool"), <<>>)

\* the chain without the try/except around it: what a handler raises leaves the call
execute_tool_call_uncaught(tool_name, arguments, env) ==
    LET h == Handler(tool_name, arguments, env)
    IN  [tool_name |-> tool_name, arguments |-> arguments,
         handler_raised |-> h.raises, escaped |-> h.raises,
         result |-> h.result, ops |-> h.ops]

\* execute_tool_call: the chain inside try/except Exception.
\* escaped: an exception left execute_tool_call.
execute_tool_call(tool_name, arguments, env) ==
    LET h == Handler(tool_name, arguments, env)
    IN  [tool_name |-> tool_name, arguments |-> arguments,
         handler_raised |-> h.raises, escaped |-> FALSE,
         result |-> IF h.raises THEN Failure("Error executing tool") ELSE h.result,
         ops |-> h.ops]


(***************************************************************************)
(* The LLM completion provider and the caller: inputs of the model         *)
(***************************************************************************)
\* contents an LLM reply may have (message.content)
Contents ==
    {None, Str(<<>>), Str(<<"a">>), Str(<<OPEN, CLOSE>>), Str(<<OPEN, SP, CLOSE>>),
     Str(<<"a", OPEN, SP, "b", SP, CLOSE, "a">>)}

\* tool_call.function.arguments: the JSON text the LLM produced
ArgStrings == {"not json", "{}", "{...}"}

\* the tools the LLM asks for in a run
RunToolNames == {"update_block_position"}

UserMessages == {<<"q1">>}
Contexts == {"none", "object", "string"}

\* json.loads(tool_call.function.arguments)
JsonLoads(text) ==
    CASE text = "[]" -> [raises |-> FALSE, value |-> "non_object"]
      [] text = "{}" -> [raises |-> FALSE, value |-> "empty_object"]
      [] text = "{...}" -> [raises |-> FALSE, value |-> "full_object"]
      [] OTHER -> [raises |-> TRUE, value |-> "none"]

\* json.dumps(result["data"] if result["success"] else {"error": result.get("error", ...)})
ToolResponseContent(result) ==
    IF result.success THEN <<"json", result.data>> ELSE <<"json", "error", result.error>>

CallChoices == RunToolNames \X ArgStrings

\* the tool_calls lists of a reply, with ids that continue the run's numbering
ToolCallLists(used) ==
    LET most == IF MaxToolCalls - used < MaxCallsPerReply
                THEN MaxToolCalls - used ELSE MaxCallsPerReply
    IN  UNION {
          {[k \in 1..n |-> [id |-> used + k, name |-> f[k][1], arguments |-> f[k][2]]] :
              f \in [1..n -> CallChoices]} : n \in 0..most}

LLMFailure == [ok |-> FALSE, content |-> None, tool_calls |-> <<>>]

\* replies of a completion call made with tools
ToolReplies(used) ==
    {LLMFailure} \cup
    {[ok |-> TRUE, content |-> c, tool_calls |-> tcs] :
        c \in Contents, tcs \in ToolCallLists(used)}

\* replies of a completion call made without tools
PlainReplies ==
    {LLMFailure} \cup {[ok |-> TRUE, content |-> c, tool_calls |-> <<>>] : c \in Contents}

(***************************************************************************)
(* ChatController                                                          *)
(***************************************************************************)
WelcomeMessage == [role |-> "assistant", content |-> Str(<<"welcome">>)]
UserMsg(message) == [role |-> "user", content |-> Str(message)]
AssistantMsg(content) == [role |-> "assistant", content |-> content]

NoCall == [kind |-> "none", ok |-> TRUE, has_tag |-> FALSE, has_tool_calls |-> FALSE]
NoResult == [returned |-> FALSE]
NoDispatch ==
    [tool_name |-> "none", arguments |-> "none", handler_raised |-> FALSE,
     escaped |-> FALSE, result |-> Failure("none"), ops |-> <<>>]

IdleRun ==
    [pc |-> "idle", message |-> <<>>, use_tools |-> TRUE,
     recent_history |-> <<>>,
     enhanced_context |-> [needs_action |-> FALSE, tool_data |-> <<>>],
     tool_results |-> <<>>, all_tool_calls |-> <<>>,
     final_response |-> None, response_match |-> "unbound", iteration |-> 0,
     pending |-> <<>>, assistant_msg_with_tools |-> AssistantMsg(Str(<<>>)),
     tool_responses |-> <<>>, result |-> NoResult,
     \* the usages in thinking_responses; the usage of the local response,
     \* <<>> while the name is unbound
     thinking_responses |-> <<>>, response |-> <<>>,
     \* history of the run, kept for the properties
     llm_calls |-> 0, hist_at_start |-> <<>>,
     last_call |-> NoCall, stuck_count |-> 0, fallback_content |-> None,
     tagged |-> FALSE, tag_calls |-> 0, tag_content |-> <<>>, aborted_by |-> "none",
     dispatch |-> NoDispatch]

\* self.chat_history[-10:] if len(self.chat_history) > 10 else self.chat_history
RecentHistory(history) ==
    IF Len(history) > HistoryWindow
    THEN SubSeq(history, Len(history) - HistoryWindow + 1, Len(history))
    ELSE history

\* the loop condition without the cap
LoopContinuesUncapped(iteration, final_response) == final_response = None

\* while iteration < max_iterations and final_response is None
LoopContinues(iteration, final_response) ==
    iteration < max_iterations /\ final_response = None

\* the summaries of the successful results, in order
RECURSIVE Summaries(_)
Summaries(tool_results) ==
    IF tool_results = <<>> THEN <<>>
    ELSE LET tr == Head(tool_results)
         IN  (IF tr.result.success THEN <<tr.result.summary>> ELSE <<>>)
             \o Summaries(Tail(tool_results))

RECURSIVE AssistantMessages(_)
AssistantMessages(all_tool_calls) ==
    IF all_tool_calls = <<>> THEN <<>>
    ELSE <<Head(all_tool_calls).assistant_message>>
         \o AssistantMessages(Tail(all_tool_calls))

RECURSIVE ToolResponses(_)
ToolResponses(all_tool_calls) ==
    IF all_tool_calls = <<>> THEN <<>>
    ELSE Head(all_tool_calls).tool_responses \o ToolResponses(Tail(all_tool_calls))

\* the assistant messages of all iterations first, the tool responses after
ToolTrafficGrouped(all_tool_calls) ==
    AssistantMessages(all_tool_calls) \o ToolResponses(all_tool_calls)

\* for tc in all_tool_calls: the assistant message, then each tool response
RECURSIVE ToolTraffic(_)
ToolTraffic(all_tool_calls) ==
    IF all_tool_calls = <<>> THEN <<>>
    ELSE <<Head(all_tool_calls).assistant_message>>
         \o Head(all_tool_calls).tool_responses
         \o ToolTraffic(Tail(all_tool_calls))

\* _build_system_message(context): the base prompt and the context as JSON
build_system_message(context) == [base |-> "system_prompt", context |-> context]

\* messages of a THINKING call built from a context that lost the reminder
ThinkingMessagesUnreminded(r) ==
    <<[role |-> "system",
       content |-> [prompt |-> build_system_message(
                                   [r.enhanced_context EXCEPT !.needs_action = FALSE]),
                    reminder |-> FALSE,
                    previous_results |-> Summaries(r.tool_results)]]>>
    \o r.recent_history \o <<UserMsg(r.message)>> \o ToolTraffic(r.all_tool_calls)

\* messages of a THINKING call
ThinkingMessages(r) ==
    <<[role |-> "system",
       content |-> [prompt |-> build_system_message(r.enhanced_context),
                    reminder |-> r.enhanced_context.needs_action,
                    previous_results |-> Summaries(r.tool_results)]]>>
    \o r.recent_history \o <<UserMsg(r.message)>> \o ToolTraffic(r.all_tool_calls)

\* messages of the direct call and of the fallback call
PlainMessages(r, kind) ==
    <<[role |-> "system",
       content |-> [prompt |-> build_system_message(r.enhanced_context),
                    reminder |-> FALSE,
                    previous_results |->
                        IF kind = "fallback" THEN Summaries(r.tool_results) ELSE <<>>]]>>
    \o r.recent_history \o <<UserMsg(r.message)>>

\* an except branch that reports the error text as a successful answer
ExceptionAsAnswer(e) ==
    [returned |-> TRUE, raised |-> FALSE, success |-> TRUE,
     response |-> Str(<<"Error sending message: ", e>>),
     message |-> <<"Error sending message: ", e>>,
     tools_used |-> 0, tool_details |-> <<>>]

\* the result of the except branch of send_message
ExceptionResult(e) ==
    [returned |-> TRUE, raised |-> FALSE, success |-> FALSE,
     message |-> <<"Error sending message: ", e>>]

\* a no-client result that carries no message
NoClientResultBare ==
    [returned |-> TRUE, raised |-> FALSE, success |-> FALSE, message |-> <<>>]

\* the result when self.client is None
NoClientResult ==
    [returned |-> TRUE, raised |-> FALSE, success |-> FALSE,
     message |-> <<"OpenAI client not initialized. Please set API key first.">>]

\* the token usage the API reports for the k-th completion call of a run
Usage(k) == k

RECURSIVE SumUsage(_)
SumUsage(usages) ==
    IF usages = <<>> THEN 0 ELSE Head(usages) + SumUsage(Tail(usages))

\* total_usage: every entry of thinking_responses, then the local response
\* if the name is bound (lines 476-495)
TotalUsage(r) == SumUsage(r.thinking_responses) + SumUsage(r.response)

SuccessResult(r, assistant_response) ==
    [returned |-> TRUE, raised |-> FALSE, success |-> TRUE,
     response |-> assistant_response,
     usage |-> TotalUsage(r),
     tools_used |-> Len(r.tool_results),
     tool_details |-> Summaries(r.tool_results)]

\* only the assistant message is appended
AppendAssistantOnly(history, message, assistant_response) ==
    history \o <<AssistantMsg(assistant_response)>>

\* the pair is appended with a tool-role message between the two
AppendWithToolMessage(history, message, assistant_response) ==
    history \o <<UserMsg(message),
                 [role |-> "tool", content |-> assistant_response, tool_call_id |-> 0],
                 AssistantMsg(assistant_response)>>

\* self.chat_history.append(user); self.chat_history.append(assistant)
AppendToHistory(history, message, assistant_response) ==
    history \o <<UserMsg(message), AssistantMsg(assistant_response)>>

\* final_response of a reply whose content has the response tag
TagResponse(content) == Str(Strip(Group1(content.s)))

\* direct mode: final_response from the reply's content
DirectResponse(content) ==
    IF Truthy(content)
    THEN IF ReSearch(content.s) THEN TagResponse(content) ELSE content
    ELSE None

\* a fallback that returns the reply's content as it is
FallbackResponseRaw(content) == OrEmpty(content)

\* fallback: assistant_response from the reply's content
FallbackResponse(content) ==
    IF Truthy(content)
    THEN IF ReSearch(content.s) THEN TagResponse(content) ELSE content
    ELSE Str(<<>>)

\* the messages of the completion call a run makes from where it stands: a
\* THINKING call inside the loop, the direct call, or the fallback call
Request(r) ==
    IF r.pc = "loop" THEN ThinkingMessages(r)
    ELSE IF r.pc = "direct" THEN PlainMessages(r, "direct")
    ELSE PlainMessages(r, "fallback")

\* the reminder text is in a system prompt: as the IMPORTANT paragraph of
\* lines 198-199, or inside the context that _build_system_message prints
HasReminder(request) ==
    \/ request[1].content.reminder
    \/ request[1].content.prompt.context.needs_action

(***************************************************************************)
(* send_message, step by step                                              *)
(***************************************************************************)
NoToolRequest == [tool_name |-> "none", arguments |-> "none", env |-> "none", done |-> TRUE]

\* the values the variables of the other specifications keep in this one
NoStream ==
    [pc |-> "none", message |-> <<>>, context |-> "none", use_tools |-> TRUE,
     queue_maxsize |-> 0, event_queue |-> <<>>, thread |-> "none",
     result_container |-> NoResult, events |-> <<>>, status |-> 0,
     \* the events put on the queue so far, kept for the properties
     put |-> <<>>]
NoRegistry == <<>>
NoFramer == [text |-> <<>>, response |-> None, raised |-> FALSE, done |-> TRUE]
NoThreads == <<>>
NoStore == [projects |-> [n \in {} |-> <<>>], test_runs |-> {}, saved |-> 0, created |-> {},
            last |-> [op |-> "none", project_name |-> "none", success |-> FALSE]]

Init ==
    /\ client = FALSE
    /\ chat_history = <<WelcomeMessage>>
    /\ run = IdleRun
    /\ dispatch = NoDispatch
    /\ tool_request = NoToolRequest
    /\ stream = NoStream
    /\ registry = NoRegistry
    /\ framer = NoFramer
    /\ store = NoStore
    /\ threads = NoThreads

Between == run.pc \in {"idle", "done"}

\* set_api_key: the client is kept when the test request succeeds
SetApiKey(valid) ==
    /\ Between
    /\ client' = valid
    /\ UNCHANGED <<chat_history, run, tool_request, dispatch, others>>

\* reset_chat
ResetChat ==
    /\ Between
    /\ chat_history' = <<>>
    /\ UNCHANGED <<client, run, tool_request, dispatch, others>>

\* send_message returns: its locals are gone, the result and the history of the
\* run stay for the properties
Returned(r, result) ==
    [IdleRun EXCEPT !.pc = "done", !.result = result,
                    !.message = r.message, !.use_tools = r.use_tools,
                    !.iteration = r.iteration,
                    !.llm_calls = r.llm_calls, !.hist_at_start = r.hist_at_start,
                    !.last_call = r.last_call, !.stuck_count = r.stuck_count,
                    !.fallback_content = r.fallback_content,
                    !.tagged = r.tagged,
                    !.tag_calls = r.tag_calls, !.tag_content = r.tag_content,
                    !.aborted_by = r.aborted_by]

\* the except branch: the run ends with a failure result
Abort(r, e) == Returned([r EXCEPT !.aborted_by = e], ExceptionResult(e))

\* send_message up to the first completion call (lines 118-147)
SendMessage(message, context, use_tools) ==
    /\ run.pc = "idle"
    /\ LET fresh == [IdleRun EXCEPT !.message = message, !.use_tools = use_tools,
                                    !.hist_at_start = chat_history]
       IN  run' =
             IF ~client
             THEN Returned(fresh, NoClientResult)
             ELSE IF context = "string"
             THEN Abort(fresh, "AttributeError")
             ELSE [fresh EXCEPT !.recent_history = RecentHistory(chat_history),
                                !.pc = IF use_tools THEN "loop" ELSE "direct"]
    /\ UNCHANGED <<client, chat_history, tool_request, dispatch, others>>

CallInfo(kind, reply) ==
    [kind |-> kind, ok |-> reply.ok,
     has_tag |-> reply.ok /\ Truthy(reply.content) /\ ReSearch(reply.content.s),
     has_tool_calls |-> reply.ok /\ reply.tool_calls # <<>>]

\* an iteration that looks at the tool calls before the response tag
AfterThinkingReplyToolsFirst(r, reply) ==
    IF reply.tool_calls # <<>>
    THEN [r EXCEPT !.assistant_msg_with_tools =
                       [role |-> "assistant", content |-> OrEmpty(reply.content),
                        tool_calls |-> reply.tool_calls],
                   !.pending = reply.tool_calls,
                   !.tool_responses = <<>>,
                   !.response_match = "none",
                   !.pc = "tools"]
    ELSE IF Truthy(reply.content) /\ ReSearch(reply.content.s)
    THEN [r EXCEPT !.response_match = "match",
                   !.final_response = TagResponse(reply.content),
                   !.pc = "respond",
                   !.tagged = TRUE,
                   !.tag_calls = r.llm_calls,
                   !.tag_content = Strip(Group1(reply.content.s))]
    ELSE [r EXCEPT !.response_match = "none",
                   !.enhanced_context.needs_action = TRUE,
                   !.stuck_count = @ + 1]

\* one THINKING iteration after the completion call returned (lines 234-294)
AfterThinkingReply(r, reply) ==
    LET content == reply.content
        tagged == Truthy(content) /\ ReSearch(content.s)
        response_match == IF Truthy(content)
                          THEN (IF tagged THEN "match" ELSE "none")
                          ELSE r.response_match
    IN  IF tagged
        THEN [r EXCEPT !.response_match = "match",
                       !.final_response = TagResponse(content),
                       !.pc = "respond",
                       !.tagged = TRUE,
                       !.tag_calls = r.llm_calls,
                       !.tag_content = Strip(Group1(content.s))]
        ELSE IF reply.tool_calls = <<>>
        THEN IF response_match = "unbound"
             THEN Abort(r, "UnboundLocalError")
             ELSE IF response_match = "none"
             THEN [r EXCEPT !.response_match = response_match,
                            !.enhanced_context.needs_action = TRUE,
                            !.stuck_count = @ + 1]
             ELSE [r EXCEPT !.pc = "respond"]
        ELSE [r EXCEPT !.response_match = response_match,
                       !.assistant_msg_with_tools =
                           [role |-> "assistant", content |-> OrEmpty(content),
                            tool_calls |-> reply.tool_calls],
                       !.pending = reply.tool_calls,
                       !.tool_responses = <<>>,
                       !.pc = "tools"]

\* lines 473-520: the history is extended and the result returned
Finish(r, assistant_response) ==
    /\ chat_history' = AppendToHistory(chat_history, r.message, assistant_response)
    /\ run' = Returned(r, SuccessResult(r, assistant_response))

\* the loop is left, by break or by its condition
LoopLeft(r) ==
    \/ r.pc = "respond"
    \/ r.pc = "loop" /\ ~LoopContinues(r.iteration, r.final_response)

\* where send_message goes on without another call: when the loop is left with a
\* final response the run finishes (lines 399-402 and 473-520), without one it
\* waits for the fallback call; inside the loop it goes on
ResponsePhase(r) ==
    IF r.pc = "done" THEN run' = r /\ UNCHANGED chat_history
    ELSE IF LoopLeft(r) /\ Truthy(r.final_response) THEN Finish(r, r.final_response)
    ELSE IF LoopLeft(r) THEN run' = [r EXCEPT !.pc = "respond"] /\ UNCHANGED chat_history
    ELSE run' = r /\ UNCHANGED chat_history

\* one iteration of the while loop up to the tool calls (lines 149-294)
Thinking(reply) ==
    /\ run.pc = "loop"
    /\ LoopContinues(run.iteration, run.final_response)
    /\ LET called ==
             [run EXCEPT !.iteration = @ + 1,
                         !.enhanced_context.needs_action = FALSE,
                         !.llm_calls = @ + 1,
                         !.thinking_responses = Append(@, Usage(run.llm_calls + 1)),
                         !.last_call = CallInfo("thinking", reply)]
       IN  IF reply.ok THEN ResponsePhase(AfterThinkingReply(called, reply))
           ELSE run' = Abort(called, "LLMError") /\ UNCHANGED chat_history
    /\ UNCHANGED <<client, tool_request, dispatch, others>>

\* bookkeeping that closes the iteration after the first result
AfterFirstToolResult(r, tool_call, result) ==
    LET responses == Append(r.tool_responses,
                            [role |-> "tool",
                             content |-> ToolResponseContent(result),
                             tool_call_id |-> tool_call.id])
    IN  [r EXCEPT !.tool_results =
                      Append(@, [tool_name |-> tool_call.name, result |-> result]),
                  !.tool_responses = responses,
                  !.pending = Tail(r.pending),
                  !.all_tool_calls =
                      Append(@, [assistant_message |-> r.assistant_msg_with_tools,
                                 tool_responses |-> responses]),
                  !.pc = "loop"]

\* the bookkeeping after execute_tool_call returned (lines 303-339)
AfterToolResult(r, tool_call, result) ==
    LET responses == Append(r.tool_responses,
                            [role |-> "tool",
                             content |-> ToolResponseContent(result),
                             tool_call_id |-> tool_call.id])
        rest == Tail(r.pending)
        r1 == [r EXCEPT !.tool_results =
                            Append(@, [tool_name |-> tool_call.name, result |-> result]),
                        !.tool_responses = responses,
                        !.enhanced_context.tool_data =
                            IF result.success
                            THEN Append(@, [tool |-> tool_call.name,
                                            data |-> result.data,
                                            summary |-> result.summary])
                            ELSE @,
                        !.pending = rest]
    IN  IF rest # <<>> THEN r1
        ELSE [r1 EXCEPT !.all_tool_calls =
                            Append(@, [assistant_message |-> r.assistant_msg_with_tools,
                                       tool_responses |-> responses]),
                        !.pc = "loop"]

\* one tool call of the reply (lines 298-333), and after the last one lines 335-339
ExecTool(env) ==
    /\ run.pc = "tools"
    /\ LET tool_call == Head(run.pending)
           tool_args == JsonLoads(tool_call.arguments)
           d == execute_tool_call(tool_call.name, tool_args.value, env)
       IN  IF tool_args.raises
           THEN run' = Abort(run, "JSONDecodeError") /\ UNCHANGED chat_history
           ELSE IF d.escaped
           THEN run' = Abort([run EXCEPT !.dispatch = d], "ToolError") /\ UNCHANGED chat_history
           ELSE ResponsePhase(AfterToolResult([run EXCEPT !.dispatch = d], tool_call, d.result))
    /\ UNCHANGED <<client, tool_request, dispatch, others>>

\* the direct response mode (lines 344-396)
Direct(reply) ==
    /\ run.pc = "direct"
    /\ LET called ==
             [run EXCEPT !.llm_calls = @ + 1,
                         !.response = <<Usage(run.llm_calls + 1)>>,
                         !.thinking_responses = Append(@, Usage(run.llm_calls + 1)),
                         !.last_call = CallInfo("direct", reply)]
       IN  IF reply.ok
           THEN ResponsePhase([called EXCEPT !.final_response = DirectResponse(reply.content),
                                             !.pc = "respond"])
           ELSE run' = Abort(called, "LLMError") /\ UNCHANGED chat_history
    /\ UNCHANGED <<client, tool_request, dispatch, others>>

\* response phase without one: the fallback call (lines 403-471)
Fallback(reply) ==
    /\ run.pc = "respond"
    /\ LET called ==
             [run EXCEPT !.llm_calls = @ + 1,
                         !.response = <<Usage(run.llm_calls + 1)>>,
                         !.last_call = CallInfo("fallback", reply),
                         !.fallback_content = reply.content]
       IN  IF reply.ok
           THEN Finish(called, FallbackResponse(reply.content))
           ELSE run' = Abort(called, "LLMError") /\ UNCHANGED chat_history
    /\ UNCHANGED <<client, tool_request, dispatch, others>>

Next ==
    \/ \E valid \in BOOLEAN : SetApiKey(valid)
    \/ ResetChat
    \/ \E message \in UserMessages, context \in Contexts, use_tools \in BOOLEAN :
          SendMessage(message, context, use_tools)
    \/ \E reply \in ToolReplies(Len(run.tool_results)) : Thinking(reply)
    \/ \E env \in Env : ExecTool(env)
    \/ \E reply \in PlainReplies : Direct(reply)
    \/ \E reply \in PlainReplies : Fallback(reply)

Spec == Init /\ [][Next]_vars

(***************************************************************************)
(* execute_tool_call on its own, for every tool name, arguments and store  *)
(***************************************************************************)
DispatchInit ==
    /\ client = FALSE
    /\ chat_history = <<WelcomeMessage>>
    /\ run = IdleRun
    /\ dispatch = NoDispatch
    /\ tool_request \in [tool_name : KnownTools \cup UnknownTools,
                         arguments : ParsedArgs,
                         env : Env \cup {"no_block"}, done : {FALSE}]
    /\ stream = NoStream
    /\ registry = NoRegistry
    /\ framer = NoFramer
    /\ store = NoStore
    /\ threads = NoThreads

Dispatch ==
    /\ ~tool_request.done
    /\ dispatch' = execute_tool_call(tool_request.tool_name, tool_request.arguments,
                                     tool_request.env)
    /\ tool_request' = [tool_request EXCEPT !.done = TRUE]
    /\ UNCHANGED <<client, chat_history, run, others>>

DispatchNext == Dispatch

DispatchSpec == DispatchInit /\ [][DispatchNext]_vars

(***************************************************************************)
(* send_message_stream (api.py): the generator, its queue and its worker   *)
(***************************************************************************)
StreamMessages == {<<>>, <<"q1">>, <<"q2">>}

\* the parameters send_message declares, and the keywords run_chat passes
SendMessageParameters == {"message", "context", "use_tools"}
StreamCallKeywords == {"tool_callback"}

\* a call binds when every keyword is a parameter; otherwise TypeError
CallBinds(parameters, keywords) == keywords \subseteq parameters

\* Queue(): maxsize 0, which queue.Queue takes as no limit
QueueMaxsize == 0

StartEvent == [type |-> "start"]
DoneEvent == [type |-> "done"]
ToolCallEvent(name, summary) == [type |-> "tool_call", tool_name |-> name, summary |-> summary]

\* tool_cb: event_queue.put, which waits only when a positive maxsize is reached
tool_cb(q, name, summary) == Append(q, ToolCallEvent(name, summary))

\* the event of a stream that reports nothing about the result
NoFinalEvent(result) == <<>>

\* the event yielded after the loop, from result_container.get('result', {})
FinalEvent(result) ==
    IF result.returned /\ result.success
    THEN <<[type |-> "response", content |-> result.response]>>
    ELSE IF result.returned
    THEN <<[type |-> "error", message |-> result.message]>>
    ELSE <<[type |-> "error", message |-> <<"Unknown error">>]>>

\* an exit test that never looks at the thread
LoopExitsNever(thread) == FALSE

\* if not thread.is_alive(): break
LoopExits(thread) == thread # "alive"

StreamInit ==
    /\ client \in BOOLEAN
    /\ chat_history = <<WelcomeMessage>>
    /\ run = IdleRun
    /\ dispatch = NoDispatch
    /\ tool_request = NoToolRequest
    /\ stream \in {[NoStream EXCEPT !.pc = "request", !.message = m,
                                    !.context = c, !.use_tools = u] :
                      m \in StreamMessages, c \in Contexts, u \in BOOLEAN}
    /\ registry = NoRegistry
    /\ framer = NoFramer
    /\ store = NoStore
    /\ threads = NoThreads

\* if not message: 400
StreamReject ==
    /\ stream.pc = "request" /\ stream.message = <<>>
    /\ stream' = [stream EXCEPT !.pc = "rejected", !.status = 400]
    /\ UNCHANGED <<client, chat_history, run, tool_request, dispatch, threads, registry, framer, store>>

\* generate() up to its first yield: the queue, the thread, the start event
StreamStart ==
    /\ stream.pc = "request" /\ stream.message # <<>>
    /\ stream' = [stream EXCEPT !.pc = "drain", !.status = 200,
                                !.queue_maxsize = QueueMaxsize,
                                !.event_queue = <<>>, !.thread = "alive",
                                !.events = <<StartEvent>>]
    /\ UNCHANGED <<client, chat_history, run, tool_request, dispatch, threads, registry, framer, store>>

\* run_chat on the worker thread: the call of send_message with tool_callback=
StreamWorker ==
    /\ stream.thread = "alive"
    /\ IF ~CallBinds(SendMessageParameters, StreamCallKeywords)
       THEN stream' = [stream EXCEPT !.thread = "died"]
       ELSE IF ~client
       THEN stream' = [stream EXCEPT !.thread = "returned",
                                     !.result_container = NoClientResult]
       ELSE stream' = [stream EXCEPT !.thread = "in_send_message"]
    /\ UNCHANGED <<client, chat_history, run, tool_request, dispatch, threads, registry, framer, store>>

\* event_queue.get(timeout=0.25): an event is forwarded, or Empty is raised
StreamPoll ==
    /\ stream.pc = "drain"
    /\ IF stream.event_queue # <<>>
       THEN stream' = [stream EXCEPT !.events = Append(@, Head(stream.event_queue)),
                                     !.event_queue = Tail(@)]
       ELSE stream' = [stream EXCEPT !.pc = "empty"]
    /\ UNCHANGED <<client, chat_history, run, tool_request, dispatch, threads, registry, framer, store>>

\* except Empty: leave the loop when the thread is not alive
StreamCheckAlive ==
    /\ stream.pc = "empty"
    /\ stream' = [stream EXCEPT !.pc = IF LoopExits(stream.thread) THEN "final" ELSE "drain"]
    /\ UNCHANGED <<client, chat_history, run, tool_request, dispatch, threads, registry, framer, store>>

\* thread.join(), then the response or the error event
StreamFinal ==
    /\ stream.pc = "final" /\ stream.thread # "alive"
    /\ stream' = [stream EXCEPT !.events = @ \o FinalEvent(stream.result_container),
                                !.pc = "emit_done"]
    /\ UNCHANGED <<client, chat_history, run, tool_request, dispatch, threads, registry, framer, store>>

\* the completion signal
StreamDone ==
    /\ stream.pc = "emit_done"
    /\ stream' = [stream EXCEPT !.events = Append(@, DoneEvent), !.pc = "closed"]
    /\ UNCHANGED <<client, chat_history, run, tool_request, dispatch, threads, registry, framer, store>>

StreamAdapter == StreamPoll \/ StreamCheckAlive \/ StreamFinal \/ StreamDone

StreamNext == StreamReject \/ StreamStart \/ StreamWorker \/ StreamAdapter

\* the worker thread is scheduled and the caller keeps reading the stream
StreamSpec ==
    StreamInit /\ [][StreamNext]_vars /\ WF_vars(StreamWorker) /\ WF_vars(StreamAdapter)

(***************************************************************************)
(* The generator of send_message_stream with the worker it was written     *)
(* for: a send_message that takes tool_callback and calls it after each    *)
(* tool, then returns its result.  The generator's steps are the ones of   *)
(* StreamSpec.                                                             *)
(***************************************************************************)
DrainInit ==
    /\ client = TRUE
    /\ chat_history = <<WelcomeMessage>>
    /\ run = IdleRun
    /\ dispatch = NoDispatch
    /\ tool_request = NoToolRequest
    /\ stream \in {[NoStream EXCEPT !.pc = "request", !.message = m,
                                    !.context = c, !.use_tools = TRUE] :
                      m \in StreamMessages \ {<<>>}, c \in Contexts}
    /\ registry = NoRegistry
    /\ framer = NoFramer
    /\ store = NoStore
    /\ threads = NoThreads

\* the worker calls tool_cb(name, summary) after a tool has finished
DrainWorkerPut ==
    /\ stream.thread = "alive"
    /\ Len(stream.put) < MaxStreamEvents
    /\ \E name \in RunToolNames :
          LET event == ToolCallEvent(name, Len(stream.put) + 1)
          IN  stream' = [stream EXCEPT
                  !.event_queue = tool_cb(@, name, Len(stream.put) + 1),
                  !.put = Append(@, event)]
    /\ UNCHANGED <<client, chat_history, run, tool_request, dispatch, threads, registry, framer, store>>

\* send_message returns, run_chat stores the result and the thread ends
DrainWorkerEnd ==
    /\ stream.thread = "alive"
    /\ \E result \in {[returned |-> TRUE, raised |-> FALSE, success |-> TRUE,
                        response |-> Str(<<"a">>), tools_used |-> Len(stream.put),
                        tool_details |-> <<>>],
                       ExceptionResult("LLMError")} :
          stream' = [stream EXCEPT !.thread = "returned", !.result_container = result]
    /\ UNCHANGED <<client, chat_history, run, tool_request, dispatch, threads, registry, framer, store>>

DrainNext == StreamStart \/ DrainWorkerPut \/ DrainWorkerEnd \/ StreamAdapter

DrainSpec == DrainInit /\ [][DrainNext]_vars

(***************************************************************************)
(* Several send_message calls and reset_chat on the one chat_controller    *)
(* (chat_controller.py line 714), each on its own request thread.  A step  *)
(* is one operation on the shared list: the read of line 135, the read of  *)
(* recent_history when a request is built, each append of lines 498-499,   *)
(* the clear of reset_chat.                                                *)
(***************************************************************************)
Threads == {"A", "B"}

Message(t) == <<"q", t>>
Response(t) == Str(<<"r", t>>)

OldPair == <<UserMsg(<<"old">>), AssistantMsg(Str(<<"old">>))>>

\* the history after five earlier runs: longer than the window
LongHistory == <<WelcomeMessage>> \o OldPair \o OldPair \o OldPair \o OldPair \o OldPair

IdleThread ==
    [pc |-> "idle", aliased |-> FALSE, start_view |-> <<>>, contexts |-> <<>>,
     epoch |-> 0]

\* recent_history as a request reads it: the list object itself when line 135
\* took the else branch, the slice it copied otherwise
RecentHistoryNow(th, history) == IF th.aliased THEN history ELSE th.start_view

ConcInit ==
    /\ client = TRUE
    /\ chat_history \in {<<WelcomeMessage>>, LongHistory}
    /\ run = IdleRun
    /\ dispatch = NoDispatch
    /\ tool_request = NoToolRequest
    /\ stream = NoStream
    /\ registry = NoRegistry
    /\ framer = NoFramer
    /\ store = NoStore
    /\ threads = [runs |-> [t \in Threads |-> IdleThread], resets |-> 0]

\* line 135: recent_history is bound
ConcStart(t) ==
    /\ threads.runs[t].pc = "idle"
    /\ threads' = [threads EXCEPT
           !.runs[t] = [IdleThread EXCEPT
                           !.pc = "running",
                           !.aliased = ~(Len(chat_history) > HistoryWindow),
                           !.start_view = RecentHistory(chat_history),
                           !.epoch = threads.resets]]
    /\ UNCHANGED <<client, chat_history, run, tool_request, dispatch, stream, registry, framer, store>>

\* a completion call of the run: messages.extend(recent_history)
ConcCall(t) ==
    /\ threads.runs[t].pc = "running"
    /\ Len(threads.runs[t].contexts) < MaxRunCalls
    /\ threads' = [threads EXCEPT
           !.runs[t].contexts = Append(@, RecentHistoryNow(threads.runs[t], chat_history))]
    /\ UNCHANGED <<client, chat_history, run, tool_request, dispatch, stream, registry, framer, store>>

\* a completion call or a tool raised: the except branch, nothing appended
ConcFail(t) ==
    /\ threads.runs[t].pc = "running"
    /\ threads' = [threads EXCEPT !.runs[t].pc = "failed"]
    /\ UNCHANGED <<client, chat_history, run, tool_request, dispatch, stream, registry, framer, store>>

\* line 498
ConcAppendUser(t) ==
    /\ threads.runs[t].pc = "running"
    /\ threads.runs[t].contexts # <<>>
    /\ chat_history' = Append(chat_history, UserMsg(Message(t)))
    /\ threads' = [threads EXCEPT !.runs[t].pc = "user_appended"]
    /\ UNCHANGED <<client, run, tool_request, dispatch, stream, registry, framer, store>>

\* line 499, and the return
ConcAppendAssistant(t) ==
    /\ threads.runs[t].pc = "user_appended"
    /\ chat_history' = Append(chat_history, AssistantMsg(Response(t)))
    /\ threads' = [threads EXCEPT !.runs[t].pc = "done"]
    /\ UNCHANGED <<client, run, tool_request, dispatch, stream, registry, framer, store>>

\* reset_chat: self.chat_history.clear(), on the list the runs may hold
ConcReset ==
    /\ threads.resets < MaxResets
    /\ chat_history' = <<>>
    /\ threads' = [threads EXCEPT !.resets = @ + 1]
    /\ UNCHANGED <<client, run, tool_request, dispatch, stream, registry, framer, store>>

ConcNext ==
    \/ \E t \in Threads : ConcStart(t)
    \/ \E t \in Threads : ConcCall(t)
    \/ \E t \in Threads : ConcFail(t)
    \/ \E t \in Threads : ConcAppendUser(t)
    \/ \E t \in Threads : ConcAppendAssistant(t)
    \/ ConcReset

ConcSpec == ConcInit /\ [][ConcNext]_vars

(***************************************************************************)
(* The response extraction of send_message on its own                      *)
(***************************************************************************)
Tokens == {OPEN, CLOSE, SP, "a"}
Texts == UNION {[1..n -> Tokens] : n \in 0..MaxTextLen}

\* re.search(...) on a reply's content, then group(1).strip(); None without a match
extract_response(text) ==
    IF ReSearch(text) THEN Str(Strip(Group1(text))) ELSE None

FramerInit ==
    /\ client = FALSE
    /\ chat_history = <<WelcomeMessage>>
    /\ run = IdleRun
    /\ dispatch = NoDispatch
    /\ tool_request = NoToolRequest
    /\ stream = NoStream
    /\ registry = NoRegistry
    /\ framer \in {[text |-> t, response |-> None, raised |-> FALSE, done |-> FALSE] :
                      t \in Texts}
    /\ store = NoStore
    /\ threads = NoThreads

Extract ==
    /\ ~framer.done
    /\ framer' = [framer EXCEPT !.response = extract_response(framer.text),
                                !.done = TRUE]
    /\ UNCHANGED <<client, chat_history, run, tool_request, dispatch, threads, stream, registry, store>>

FramerNext == Extract

FramerSpec == FramerInit /\ [][FramerNext]_vars

(***************************************************************************)
(* The project store and the test-run store (file_manager.py), with the    *)
(* operations that save a test run for a project and the delete_project    *)
(* tool.  A project file holds results.test_runs, a list of references;    *)
(* a test-run file holds the project_id it was saved for.                  *)
(***************************************************************************)
ProjectNames == {"p1", "p2"}

\* metadata.project_id of the project created under a name
project_id(name) == <<"proj", name>>

\* a reference in results.test_runs: the id string itself, or the dict
\* {"id": ..., "results_file": ...} that update_project_test_runs appends
\* (info is FALSE for the id string, TRUE for the dict)

\* the files test_runs_dir / f"{test_run_id}.json" can name: the file of
\* that id for an id string; for a dict the path is the text of the dict,
\* which is the name of no file
test_run_path(ref) == IF ref.info THEN {} ELSE {ref.id}

\* the ids of the test-run files saved for a project
TestRunsOf(s, name) == {f.id : f \in {g \in s.test_runs : g.project_id = project_id(name)}}

RECURSIVE Ascending(_)
Ascending(S) ==
    IF S = {} THEN <<>>
    ELSE LET m == CHOOSE x \in S : \A y \in S : x <= y
         IN <<m>> \o Ascending(S \ {m})

\* FileManager.save_test_run: a new file test-run-<timestamp>.json
save_test_run(s, pid) ==
    [s EXCEPT !.test_runs = @ \cup {[id |-> s.saved + 1, project_id |-> pid]},
              !.saved = @ + 1]

\* FileManager.update_project_test_runs: nothing without the project file
update_project_test_runs(s, name, id) ==
    IF name \in DOMAIN s.projects
    THEN [s EXCEPT !.projects[name] = Append(@, [info |-> TRUE, id |-> id])]
    ELSE s

Did(op, name, success) == [op |-> op, project_name |-> name, success |-> success]

StoreInit ==
    /\ client = FALSE
    /\ chat_history = <<WelcomeMessage>>
    /\ run = IdleRun
    /\ dispatch = NoDispatch
    /\ tool_request = NoToolRequest
    /\ stream = NoStream
    /\ registry = NoRegistry
    /\ framer = NoFramer
    /\ store = NoStore
    /\ threads = NoThreads

\* FileManager.create_project: results.test_runs starts empty
StoreCreateProject ==
    \E name \in ProjectNames \ store.created :
        /\ store' = [store EXCEPT
               !.projects = [n \in DOMAIN store.projects \cup {name} |->
                                IF n = name THEN <<>> ELSE store.projects[n]],
               !.created = @ \cup {name},
               !.last = Did("create_project", name, TRUE)]
        /\ UNCHANGED <<client, chat_history, run, tool_request, dispatch, threads, stream, registry, framer>>

\* POST /api/classical_sensitivity_test (and quantum, hybrid) with a
\* project_id: the run is saved; the project gets a reference only when the
\* request also carries project_name
SensitivityTestApi ==
    \E name \in DOMAIN store.projects, with_name \in BOOLEAN :
        /\ store.saved < MaxTestRuns
        /\ LET saved == save_test_run(store, project_id(name))
               linked == IF with_name
                         THEN update_project_test_runs(saved, name, saved.saved)
                         ELSE saved
           IN store' = [linked EXCEPT !.last = Did("sensitivity_test_api", name, TRUE)]
        /\ UNCHANGED <<client, chat_history, run, tool_request, dispatch, threads, stream, registry, framer>>

\* the run_sensitivity_test tool: the request it posts has project_id and
\* no project_name
RunSensitivityTestTool ==
    \E name \in ProjectNames :
        /\ store.saved < MaxTestRuns
        /\ store' = IF name \in DOMAIN store.projects
                    THEN [save_test_run(store, project_id(name)) EXCEPT
                              !.last = Did("run_sensitivity_test", name, TRUE)]
                    ELSE [store EXCEPT !.last = Did("run_sensitivity_test", name, FALSE)]
        /\ UNCHANGED <<client, chat_history, run, tool_request, dispatch, threads, stream, registry, framer>>

\* POST /api/test-runs: save_test_run and nothing else
CreateTestRunApi ==
    \E name \in DOMAIN store.projects :
        /\ store.saved < MaxTestRuns
        /\ store' = [save_test_run(store, project_id(name)) EXCEPT
                         !.last = Did("create_test_run", name, TRUE)]
        /\ UNCHANGED <<client, chat_history, run, tool_request, dispatch, threads, stream, registry, framer>>

\* PUT /api/projects/<name>: the client's project configuration replaces the
\* file; here a client that lists test runs of the project by id
UpdateProjectApi ==
    \E name \in DOMAIN store.projects :
        \E ids \in SUBSET TestRunsOf(store, name) :
            /\ ids # {}
            /\ store' = [store EXCEPT
                   !.projects[name] = [i \in 1..Cardinality(ids) |-> [info |-> FALSE, id |-> Ascending(ids)[i]]],
                   !.last = Did("update_project", name, TRUE)]
            /\ UNCHANGED <<client, chat_history, run, tool_request, dispatch, threads, stream, registry, framer>>

\* NoiraFileAccessService.delete_project
delete_project_tool(s, name, confirm) ==
    IF ~confirm THEN [s EXCEPT !.last = Did("delete_project", name, FALSE)]
    ELSE IF name \notin DOMAIN s.projects
    THEN [s EXCEPT !.last = Did("delete_project", name, FALSE)]
    ELSE LET test_runs == s.projects[name]
             unlinked == UNION {test_run_path(test_runs[i]) : i \in 1..Len(test_runs)}
         IN [s EXCEPT
                !.test_runs = {f \in @ : f.id \notin unlinked},
                !.projects = [n \in DOMAIN s.projects \ {name} |-> s.projects[n]],
                !.last = Did("delete_project", name, TRUE)]

DeleteProjectTool ==
    \E name \in ProjectNames, confirm \in BOOLEAN :
        /\ store' = delete_project_tool(store, name, confirm)
        /\ UNCHANGED <<client, chat_history, run, tool_request, dispatch, threads, stream, registry, framer>>

StoreNext ==
    \/ StoreCreateProject
    \/ SensitivityTestApi
    \/ RunSensitivityTestTool
    \/ CreateTestRunApi
    \/ UpdateProjectApi
    \/ DeleteProjectTool

StoreSpec == StoreInit /\ [][StoreNext]_vars

(***************************************************************************)
(* PendingResultRegistry: the results of background analyses, by analysis  *)
(* id.  Each operation is one step on one key; workers and pollers call    *)
(* them in any order.  taken and completed count, per id, the takes that   *)
(* returned a completed result and the passages from pending to complete.  *)
(***************************************************************************)
AnalysisIds == {"a1", "a2"}


\* what an operation gave back to its caller
Gave(op, id, returned) == [op |-> op, id |-> id, returned |-> returned]
NoneResult == [none |-> TRUE]
PendingResult(is_pending, response) ==
    [none |-> FALSE, is_pending |-> is_pending, response |-> response]

\* register(analysis_id, brief_message): the entry starts pending
register(r, id) == [r EXCEPT ![id].state = "pending"]

\* complete(analysis_id, response): pending -> complete; nothing changes for
\* an id that is unknown or already completed
complete(r, id, response) ==
    IF r[id].state = "pending"
    THEN [r EXCEPT ![id].state = "complete",
                   ![id].response = response,
                   ![id].completed = @ + 1]
    ELSE r

\* what take(analysis_id) returns: the still-pending indication, the
\* completed result, or None for an id not found or already consumed
take_result(r, id) ==
    CASE r[id].state = "pending" -> PendingResult(TRUE, "nil")
      [] r[id].state = "complete" -> PendingResult(FALSE, r[id].response)
      [] OTHER -> NoneResult

take_unmarked(r, id) ==
    IF r[id].state = "complete"
    THEN [r EXCEPT ![id].taken = @ + 1]
    ELSE r

\* take(analysis_id) on the registry: a completed entry is marked consumed
\* and kept
take(r, id) ==
    IF r[id].state = "complete"
    THEN [r EXCEPT ![id].state = "consumed", ![id].taken = @ + 1]
    ELSE r

\* list_pending(): the pending entries; the registry is not changed
list_pending(r) == {id \in DOMAIN r : r[id].state = "pending"}

RegistryInit ==
    /\ client = FALSE
    /\ chat_history = <<WelcomeMessage>>
    /\ run = IdleRun
    /\ dispatch = NoDispatch
    /\ tool_request = NoToolRequest
    /\ stream = NoStream
    /\ registry = [entries |-> [id \in AnalysisIds |->
                               [state |-> "absent", response |-> "nil",
                                taken |-> 0, completed |-> 0]],
                   last |-> Gave("none", "none", NoneResult)]
    /\ framer = NoFramer
    /\ store = NoStore
    /\ threads = NoThreads

\* an analysis id is unique: it is registered once
Register ==
    \E id \in AnalysisIds :
        /\ registry.entries[id].state = "absent"
        /\ registry' = [entries |-> register(registry.entries, id),
                        last |-> Gave("register", id, NoneResult)]
        /\ UNCHANGED <<client, chat_history, run, tool_request, dispatch, threads, stream, framer, store>>

Complete ==
    \E id \in AnalysisIds, response \in {"r1", "r2"} :
        /\ registry' = [entries |-> complete(registry.entries, id, response),
                        last |-> Gave("complete", id, NoneResult)]
        /\ UNCHANGED <<client, chat_history, run, tool_request, dispatch, threads, stream, framer, store>>

Take ==
    \E id \in AnalysisIds :
        /\ registry' = [entries |-> take(registry.entries, id),
                        last |-> Gave("take", id, take_result(registry.entries, id))]
        /\ UNCHANGED <<client, chat_history, run, tool_request, dispatch, threads, stream, framer, store>>

ListPending ==
    /\ registry' = [registry EXCEPT
           !.last = Gave("list_pending", "none", list_pending(registry.entries))]
    /\ UNCHANGED <<client, chat_history, run, tool_request, dispatch, threads, stream, framer, store>>

RegistryNext ==
    \/ Register
    \/ Complete
    \/ Take
    \/ ListPending

RegistrySpec == RegistryInit /\ [][RegistryNext]_vars

(***************************************************************************)
(* Properties of send_message                                              *)
(***************************************************************************)
\* C1: a run of send_message makes at most max_iterations completion calls in
\* its loop plus one fallback call, whatever the replies and the mode are.
C1_LlmCallsBounded == run.llm_calls <= max_iterations + 1

\* a run that used the whole cap and the fallback call
C1_CapAndFallback ==
    run.pc = "done" /\ run.use_tools /\ run.llm_calls = max_iterations + 1

\* C2: the step on which a run returns success=true extends chat_history by the
\* caller's message as a user message and then the returned response as an
\* assistant message, and no other step of the run changes chat_history.
C2_HistoryOnSuccess ==
    [][run' # run =>
         IF run'.pc = "done" /\ run'.result.success
         THEN chat_history' = run'.hist_at_start
                                \o <<UserMsg(run'.message), AssistantMsg(run'.result.response)>>
         ELSE chat_history' = chat_history /\ chat_history' = run'.hist_at_start]_vars

\* a successful run that met a STUCK reply, ran tools and needed the fallback
C2_LongSuccessfulRun ==
    /\ run.pc = "done" /\ run.result.success
    /\ run.result.tools_used > 0 /\ run.stuck_count > 0
    /\ run.last_call.kind = "fallback"
    /\ Len(chat_history) = Len(run.hist_at_start) + 2

\* C3: the step on which a completion call fails (in the loop, in direct mode or
\* in the fallback) ends the run with success=false and a message, and
\* chat_history is what it was when the run started.
C3_LlmFailureAborts ==
    [][(run' # run /\ ~run'.last_call.ok) =>
         /\ run'.pc = "done"
         /\ run'.aborted_by = "LLMError"
         /\ ~run'.result.success
         /\ Len(run'.result.message) > 0
         /\ chat_history' = run'.hist_at_start]_vars

\* a fallback call that failed after the tools had run
C3_LateFailure ==
    /\ run.pc = "done" /\ ~run.last_call.ok
    /\ run.last_call.kind = "fallback" /\ run.llm_calls > 2
    /\ chat_history = run.hist_at_start

\* C4 (as the code has it): after max_iterations STUCK replies the loop is left,
\* exactly one more completion call is made, without tools, and the run returns
\* the trimmed content of the response tag of that reply when it has one, the
\* reply's content as it is when it has none, and the empty string when the
\* reply has no content.
C4_FallbackAfterCap ==
    run.stuck_count = max_iterations =>
        /\ run.pc \in {"respond", "done"}
        /\ run.pc = "respond" => run.llm_calls = max_iterations
        /\ run.pc = "done" =>
              /\ run.llm_calls = max_iterations + 1
              /\ run.last_call.kind = "fallback"
              /\ ~run.last_call.has_tool_calls
        /\ (run.pc = "done" /\ run.last_call.ok) =>
              /\ run.result.success
              /\ LET c == run.fallback_content
                 IN  run.result.response =
                       IF c.none \/ c.s = <<>> THEN Str(<<>>)
                       ELSE IF \E i, j \in 1..Len(c.s) : i < j /\ c.s[i] = OPEN /\ c.s[j] = CLOSE
                       THEN Str(Strip(Group1(c.s)))
                       ELSE c

\* the cap was used up by STUCK replies and the fallback reply carried a tag
C4_TaggedFallback ==
    /\ run.pc = "done" /\ run.stuck_count = max_iterations /\ run.result.success
    /\ run.last_call.has_tag
    /\ run.result.response = Str(<<"b">>)

\* C4 as stated: the fallback reply's raw content, or the empty string when it
\* has none, is what the run returns.
C4_RawFallbackContent ==
    (run.pc = "done" /\ run.stuck_count = max_iterations /\ run.last_call.ok) =>
        /\ run.llm_calls = max_iterations + 1
        /\ run.result.response = OrEmpty(run.fallback_content)

\* C5 as stated: once a reply of the loop carries a response tag the run is
\* done, no further completion call is made and the trimmed tag content is
\* returned, for an empty tag as well.
C5_TagEndsRun ==
    run.tagged =>
        /\ run.pc = "done"
        /\ run.llm_calls = run.tag_calls
        /\ run.result.success
        /\ run.result.response = Str(run.tag_content)

\* C6 as stated: a reply of the loop with neither a response tag nor tool calls
\* never ends the run.
C6_NeitherNeverAborts ==
    ~(/\ run.pc = "done"
      /\ run.last_call.kind = "thinking" /\ run.last_call.ok
      /\ ~run.last_call.has_tag /\ ~run.last_call.has_tool_calls)

\* C7 as stated: a tool call whose arguments are malformed or missing does not
\* end the run; it yields a result with success=false and a tool-role message
\* with the error.
C7_BadArgumentsFedBack ==
    [][(/\ run.pc = "tools" /\ run' # run
        /\ Head(run.pending).arguments \in {"not json", "{}"}) =>
         /\ run'.pc # "done"
         /\ ~run'.dispatch.result.success
         /\ LET m == run'.tool_responses[Len(run'.tool_responses)]
            IN  /\ m.role = "tool"
                /\ m.tool_call_id = Head(run.pending).id
                /\ m.content = <<"json", "error", run'.dispatch.result.error>>]_vars

\* C10: every run ends with a returned result that has a boolean success and,
\* when success is false, a message; without a client the call returns
\* success=false at once, with no completion call and chat_history untouched.
C10_AlwaysStructuredResult ==
    /\ [](run.pc = "done" =>
            /\ run.result.returned /\ ~run.result.raised
            /\ run.result.success \in BOOLEAN
            /\ ~run.result.success => Len(run.result.message) > 0)
    /\ [][(run.pc = "idle" /\ run' # run /\ ~client) =>
            /\ run'.pc = "done"
            /\ ~run'.result.success
            /\ Len(run'.result.message) > 0
            /\ run'.llm_calls = 0
            /\ chat_history' = chat_history]_vars

\* a call made without a client has returned
C10_NoClientReturn ==
    /\ run.pc = "done" /\ ~run.result.success
    /\ run.llm_calls = 0 /\ run.aborted_by = "none"

\* C11 as stated: when the first reply carried k >= 1 tool calls and no tag and
\* the second reply carries a response tag, the second reply ends the run: it
\* returns the trimmed tag content after 2 completion calls and k tool
\* executions, with tools_used = k.
C11_ToolsThenTag ==
    [][(/\ run.pc = "loop" /\ run.llm_calls = 1 /\ Len(run.all_tool_calls) = 1
        /\ run' # run /\ run'.last_call.ok /\ run'.last_call.has_tag) =>
         LET k == Len(run.all_tool_calls[1].assistant_message.tool_calls)
         IN  /\ k >= 1 /\ Len(run.tool_results) = k
             /\ run'.pc = "done"
             /\ run'.llm_calls = 2
             /\ run'.result.success
             /\ run'.result.response = Str(run'.tag_content)
             /\ run'.result.tools_used = k]_vars

\* C20: the tool calls of a reply are dispatched one at a time from the head
\* of the reply's list, each result is recorded before the next dispatch, and
\* a completion call is made only when no tool call of the last reply is left
\* and every one of them has its tool response, in the reply's order.
C20_ToolCallsInOrderBeforeNextCall ==
    [][run' # run =>
         /\ (run.pc = "tools" /\ run'.pc # "done") =>
               /\ run'.dispatch.tool_name = Head(run.pending).name
               /\ run'.pending = Tail(run.pending)
               /\ run'.tool_results =
                     Append(run.tool_results,
                            [tool_name |-> Head(run.pending).name,
                             result |-> run'.dispatch.result])
               /\ run'.llm_calls = run.llm_calls
         /\ run'.llm_calls > run.llm_calls =>
               /\ run.pending = <<>>
               /\ \A n \in DOMAIN run.all_tool_calls :
                     LET calls == run.all_tool_calls[n].assistant_message.tool_calls
                         responses == run.all_tool_calls[n].tool_responses
                     IN  /\ Len(responses) = Len(calls)
                         /\ \A i \in DOMAIN calls :
                               responses[i].tool_call_id = calls[i].id]_vars

\* a second completion call was made after a reply with two tool calls
C20_TwoCallsThenNextReply ==
    /\ run.pc \in {"loop", "tools"} /\ run.llm_calls = 2
    /\ Len(run.all_tool_calls) >= 1
    /\ Len(run.all_tool_calls[1].tool_responses) = 2
    /\ Len(run.tool_results) = 2

\* a step of the run in which execute_tool_call was called
ToolDispatched ==
    \/ Len(run'.tool_results) > Len(run.tool_results)
    \/ run.aborted_by = "none" /\ run'.aborted_by = "ToolError"

\* C21: a tool is dispatched only in tool mode, after a THINKING reply that
\* has tool calls and no response tag, while the run has no final response;
\* a reply with a response tag never leads to a dispatch, and neither do the
\* direct call and the fallback call.
C21_NoToolAfterResponse ==
    /\ [](run.pc = "tools" =>
            /\ run.use_tools
            /\ ~run.tagged
            /\ run.final_response = None
            /\ run.last_call.kind = "thinking"
            /\ run.last_call.has_tool_calls
            /\ ~run.last_call.has_tag)
    /\ [][ToolDispatched => run.pc = "tools"]_vars
    /\ [][(run'.llm_calls > run.llm_calls /\ run'.last_call.has_tag) =>
             /\ run'.pc # "tools"
             /\ ~ToolDispatched]_vars

\* C21 witness: a run ended with the response of a reply that carried a
\* response tag and tool calls, and no tool was used
C21_TaggedReplyWithToolCalls ==
    /\ run.pc = "done"
    /\ run.result.returned /\ run.result.success
    /\ run.last_call.kind = "thinking"
    /\ run.last_call.has_tag /\ run.last_call.has_tool_calls
    /\ run.result.tools_used = 0

\* the run stands right before a completion call: at the top of the loop
\* (line 149), at the direct call (line 372) or at the fallback call (line 443)
AboutToCall == run.pc \in {"loop", "direct", "respond"}

\* C22: the system prompt of a completion call of a run holds the reminder
\* exactly when the reply before it in that run had neither a response tag
\* nor tool calls; this covers the THINKING calls and the fallback call.
C22_ReminderOnlyInNextCall ==
    AboutToCall =>
        (HasReminder(Request(run)) <=>
            (/\ run.llm_calls > 0
             /\ run.last_call.kind = "thinking" /\ run.last_call.ok
             /\ ~run.last_call.has_tag /\ ~run.last_call.has_tool_calls))

\* C22 witness: a run with exactly one STUCK reply made three or more
\* completion calls and returned
C22_StuckOnceThenWentOn ==
    /\ run.pc = "done"
    /\ run.result.returned /\ run.result.success
    /\ run.stuck_count = 1
    /\ run.llm_calls >= 3

\* C23: whatever runs have happened, chat_history holds only user and
\* assistant messages: no message with tool calls and no tool-role message.
C23_NoToolTrafficInHistory ==
    \A i \in DOMAIN chat_history :
        /\ chat_history[i].role \in {"user", "assistant"}
        /\ "tool_calls" \notin DOMAIN chat_history[i]
        /\ "tool_call_id" \notin DOMAIN chat_history[i]

\* C23 witness: a run that executed tools has returned and its pair is in
\* the history
C23_ToolRunInHistory ==
    /\ run.pc = "done"
    /\ run.result.returned /\ run.result.success
    /\ run.result.tools_used >= 1
    /\ Len(chat_history) = Len(run.hist_at_start) + 2

HasToolCalls(m) == "tool_calls" \in DOMAIN m

\* every assistant message with tool calls is followed at once by one tool
\* message per call, in order and with the call's id, and by no further tool
\* message; every tool message belongs to such a group
WellPaired(msgs) ==
    \A i \in DOMAIN msgs :
        /\ HasToolCalls(msgs[i]) =>
              LET n == Len(msgs[i].tool_calls)
              IN  /\ i + n <= Len(msgs)
                  /\ \A j \in 1..n :
                        /\ msgs[i + j].role = "tool"
                        /\ msgs[i + j].tool_call_id = msgs[i].tool_calls[j].id
                  /\ i + n + 1 <= Len(msgs) => msgs[i + n + 1].role # "tool"
        /\ msgs[i].role = "tool" =>
              \E a \in 1..(i - 1) :
                  /\ HasToolCalls(msgs[a])
                  /\ i - a <= Len(msgs[a].tool_calls)

\* the ids of the tool calls a request carries, in order
RECURSIVE CallIds(_)
CallIds(msgs) ==
    IF msgs = <<>> THEN <<>>
    ELSE (IF HasToolCalls(Head(msgs))
          THEN [j \in 1..Len(Head(msgs).tool_calls) |-> Head(msgs).tool_calls[j].id]
          ELSE <<>>)
         \o CallIds(Tail(msgs))

\* the names of the tool calls a request carries, in order
RECURSIVE CallNames(_)
CallNames(msgs) ==
    IF msgs = <<>> THEN <<>>
    ELSE (IF HasToolCalls(Head(msgs))
          THEN [j \in 1..Len(Head(msgs).tool_calls) |-> Head(msgs).tool_calls[j].name]
          ELSE <<>>)
         \o CallNames(Tail(msgs))

\* C24: in the request of every THINKING call the tool traffic of the earlier
\* iterations is well paired, and the tool calls it carries are the calls
\* dispatched so far in the run, each once and in the order of dispatch.
C24_ToolTrafficWellPaired ==
    (AboutToCall /\ run.pc = "loop") =>
        /\ WellPaired(Request(run))
        /\ CallIds(Request(run)) = [j \in 1..Len(run.tool_results) |-> j]
        /\ CallNames(Request(run)) =
              [j \in 1..Len(run.tool_results) |-> run.tool_results[j].tool_name]

\* C24 witness: two iterations with one tool call each were followed by a
\* third THINKING call, whose reply had neither tag nor tool calls
C24_CallAfterTwoToolIterations ==
    /\ run.pc = "loop"
    /\ run.iteration = 3
    /\ Len(run.all_tool_calls) = 2
    /\ run.last_call.kind = "thinking"
    /\ ~run.last_call.has_tool_calls

\* C30 as stated: the usage of a successful send_message is the sum of the
\* usages of the completion calls of the run, each counted once, in tool mode
\* with or without the fallback call and in direct mode.
C30_UsageCountsEachCallOnce ==
    (run.pc = "done" /\ run.result.success) =>
        run.result.usage = SumUsage([k \in 1..run.llm_calls |-> Usage(k)])

\* in tool mode the total is the sum, with the fallback call and without it
C30_ToolModeUsageIsSum ==
    (run.pc = "done" /\ run.result.success /\ run.use_tools) =>
        run.result.usage = SumUsage([k \in 1..run.llm_calls |-> Usage(k)])

(***************************************************************************)
\* C8: a tool name outside the fixed set gets success=false with an error, no
\* exception leaves the call and the store is neither read nor written.
C8_UnknownToolRefused ==
    (tool_request.done /\ tool_request.tool_name \notin KnownTools) =>
        /\ ~dispatch.escaped
        /\ ~dispatch.result.success
        /\ dispatch.result.error = "Unknown tool"
        /\ dispatch.ops = <<>>

\* an unknown name was dispatched with a well-formed arguments object
C8_UnknownDispatched ==
    /\ tool_request.done /\ tool_request.tool_name \in UnknownTools
    /\ tool_request.arguments = "full_object"
    /\ dispatch.tool_name = tool_request.tool_name

\* C9: whatever the tool name and the arguments, no exception leaves
\* execute_tool_call, and a call whose handler raised returns success=false.
C9_HandlerExceptionsCaught ==
    tool_request.done =>
        /\ ~dispatch.escaped
        /\ dispatch.handler_raised =>
              /\ ~dispatch.result.success
              /\ dispatch.result.error = "Error executing tool"

\* a handler raised on arguments that are no object
C9_HandlerRaised ==
    /\ tool_request.done /\ dispatch.handler_raised
    /\ tool_request.tool_name \in KnownTools

\* C16 as stated: one call of execute_tool_call writes or deletes at most one
\* file of the store, for every tool and every arguments value.
C16_AtMostOneEffect ==
    tool_request.done =>
        Cardinality({i \in DOMAIN dispatch.ops : dispatch.ops[i] \in StoreEffects}) <= 1

\* C29: when the handler of add_block, update_block_parameters,
\* update_block_position or remove_block returns success=false because a
\* check on the arguments or on the project failed, the call made no write
\* to the project store.
C29_FailedCheckWritesNothing ==
    (/\ tool_request.done
     /\ tool_request.tool_name \in
            {"add_block", "update_block_parameters", "update_block_position",
             "remove_block"}
     /\ ~dispatch.handler_raised
     /\ ~dispatch.result.success) =>
        \A i \in DOMAIN dispatch.ops : dispatch.ops[i] \notin StoreEffects

\* update_block_position was refused for a block that is not on the canvas,
\* after the project was loaded
C29_PositionRefusedUnplaced ==
    /\ tool_request.done
    /\ tool_request.tool_name = "update_block_position"
    /\ tool_request.arguments = "full_object"
    /\ tool_request.env = "unplaced"
    /\ ~dispatch.handler_raised
    /\ dispatch.result = Failure("not placed on canvas")
    /\ dispatch.ops = <<"load_project">>

(***************************************************************************)
(* Properties of send_message_stream                                       *)
(***************************************************************************)
\* C12: the events of one call are a start event, then tool_call events only,
\* then one response or error event, then one done event, in every state a
\* prefix of that shape; once done is sent the events never change.
C12_EventSequenceShape ==
    /\ [](LET e == stream.events
              n == Len(e)
          IN  /\ stream.pc \in {"none", "request", "rejected"} => e = <<>>
              /\ stream.pc \in {"drain", "empty", "final"} =>
                    /\ n >= 1 /\ e[1].type = "start"
                    /\ \A i \in 2..n : e[i].type = "tool_call"
              /\ stream.pc = "emit_done" =>
                    /\ n >= 2 /\ e[1].type = "start"
                    /\ e[n].type \in {"response", "error"}
                    /\ \A i \in 2..(n-1) : e[i].type = "tool_call"
              /\ stream.pc = "closed" =>
                    /\ n >= 3 /\ e[1].type = "start"
                    /\ e[n].type = "done"
                    /\ e[n-1].type \in {"response", "error"}
                    /\ \A i \in 2..(n-2) : e[i].type = "tool_call")
    /\ [][stream.pc = "closed" => stream'.events = stream.events]_vars

\* a stream that was read to its end
C12_StreamClosed ==
    /\ stream.pc = "closed"
    /\ stream.events[1] = StartEvent
    /\ stream.events[Len(stream.events)] = DoneEvent

\* C13 as stated: the terminal event reports the run: a response event carries
\* the response of a run that returned success=true, and an error event is sent
\* only for a run that returned success=false.
C13_StreamReportsRun ==
    stream.pc = "closed" =>
        LET terminal == stream.events[Len(stream.events) - 1]
            result == stream.result_container
        IN  /\ terminal.type = "response" =>
                  result.returned /\ result.success /\ terminal.content = result.response
            /\ terminal.type = "error" =>
                  result.returned /\ ~result.success /\ terminal.message = result.message

\* C14: once the worker thread has ended, by returning or by an exception, the
\* generator leaves its loop and sends the terminal event and done.
C14_WorkerEndLeadsToDone ==
    (stream.thread \in {"died", "returned"}) ~>
        (/\ stream.pc = "closed"
         /\ stream.events[Len(stream.events)] = DoneEvent
         /\ stream.events[Len(stream.events) - 1].type \in {"response", "error"})

\* the worker died while the queue was empty and the stream was still closed
C14_DiedAndClosed ==
    /\ stream.thread = "died" /\ stream.event_queue = <<>>
    /\ stream.pc = "closed"

\* C15 as stated: the event queue of a call has a capacity, and the events
\* waiting in it never exceed that capacity.
C15_QueueBounded ==
    stream.pc \in {"drain", "empty", "final", "emit_done", "closed"} =>
        /\ stream.queue_maxsize > 0
        /\ Len(stream.event_queue) <= stream.queue_maxsize

(***************************************************************************)
(* Properties of the response extraction                                   *)
(***************************************************************************)
\* C18: for a text whose first opening tag is at i and whose first closing tag
\* after it is at j, the extracted response is the text between them without
\* its leading and trailing whitespace; for a text with no opening tag that is
\* followed by a closing tag the extraction yields None; nothing is raised.
C18_ExtractionRoundTrip ==
    framer.done =>
        LET t == framer.text
            r == framer.response
        IN  /\ ~framer.raised
            /\ (~\E i, j \in DOMAIN t : i < j /\ t[i] = OPEN /\ t[j] = CLOSE) => r = None
            /\ \A i, j \in DOMAIN t :
                  (/\ i < j /\ t[i] = OPEN /\ t[j] = CLOSE
                   /\ \A k \in 1..(i-1) : t[k] # OPEN
                   /\ \A k \in (i+1)..(j-1) : t[k] # CLOSE) =>
                     LET X == SubSeq(t, i + 1, j - 1)
                     IN  /\ ~r.none
                         /\ r.s = <<>> \/ (r.s[1] # SP /\ r.s[Len(r.s)] # SP)
                         /\ \E a, b \in 0..Len(X) :
                               /\ a + b + Len(r.s) = Len(X)
                               /\ \A k \in 1..a : X[k] = SP
                               /\ \A k \in (Len(X) - b + 1)..Len(X) : X[k] = SP
                               /\ r.s = SubSeq(X, a + 1, Len(X) - b)

\* a text with whitespace before X was extracted
C18_TrimmedFirstTag ==
    /\ framer.done
    /\ framer.text = <<OPEN, SP, "a", CLOSE>>
    /\ framer.response = Str(<<"a">>)

C19_DeleteLeavesNothing ==
    (store.last.op = "delete_project" /\ store.last.success) =>
        /\ store.last.project_name \notin DOMAIN store.projects
        /\ TestRunsOf(store, store.last.project_name) = {}

\* the part of C19 that holds: the project can no longer be loaded
C19_ProjectGone ==
    (store.last.op = "delete_project" /\ store.last.success) =>
        store.last.project_name \notin DOMAIN store.projects


C25_ForwardedInOrder ==
    stream.pc \in {"drain", "empty", "final"} =>
        /\ Len(stream.events) - 1 <= Len(stream.put)
        /\ SubSeq(stream.events, 2, Len(stream.events))
              = SubSeq(stream.put, 1, Len(stream.events) - 1)

(***************************************************************************)
(* Properties of concurrent runs on the shared controller                  *)
(***************************************************************************)
\* C26: every request of a run carries the same history messages, the (at
\* most 10) most recent ones when the run started, whatever other runs append
\* and whether or not reset_chat runs meanwhile.
C26_HistoryIsSnapshot ==
    \A t \in Threads :
        \A i \in DOMAIN threads.runs[t].contexts :
            /\ threads.runs[t].contexts[i] = threads.runs[t].start_view
            /\ Len(threads.runs[t].contexts[i]) <= HistoryWindow

\* C27: the user message of a run that returned with success is immediately
\* followed in chat_history by the assistant message of the same run.
C27_PairsDoNotInterleave ==
    \A t \in Threads :
        threads.runs[t].pc = "done" =>
            \A i \in DOMAIN chat_history :
                chat_history[i] = UserMsg(Message(t)) =>
                    /\ i < Len(chat_history)
                    /\ chat_history[i + 1] = AssistantMsg(Response(t))

\* C28: once reset_chat has run and every run that had started before it has
\* finished, chat_history holds only messages of runs started after it.
C28_NoMessageFromBeforeReset ==
    (/\ threads.resets >= 1
     /\ \A t \in Threads :
           (threads.runs[t].pc # "idle" /\ threads.runs[t].epoch < threads.resets)
               => threads.runs[t].pc \in {"done", "failed"})
    => \A i \in DOMAIN chat_history :
           \E t \in Threads :
               /\ threads.runs[t].pc # "idle"
               /\ threads.runs[t].epoch = threads.resets
               /\ chat_history[i] \in {UserMsg(Message(t)), AssistantMsg(Response(t))}

====
